---- MODULE Spec2Model ----
(***************************************************************************)
(* Career Compass: the trait accumulator (ProfilerAgent), the compatibility *)
(* scorer (utils), the job analyst (AnalystAgent), the scout (ScoutAgent)   *)
(* and the session state machine (OrchestratorAgent).                       *)
(*                                                                          *)
(* Conventions.  A Python dict is a TLA+ function whose DOMAIN is the set   *)
(* of its keys; dict.get(k, d) is Get(p, k, d); None is the string "None".  *)
(* A compatibility score is a Python float m/t with t in 1..6; it is kept   *)
(* exactly as the integer 60*m/t (sixtieths), so 0.5 is 30 and 1.0 is 60.   *)
(* The accumulated keyword list is list(set(...)): its order is arbitrary,  *)
(* so it is kept as a set.                                                  *)
(***************************************************************************)
EXTENDS Integers, Sequences, FiniteSets, TLC

VARIABLES
    workflow_state,        \* OrchestratorState.workflow_state (the enum's value)
    user_profile,          \* OrchestratorState.user_profile
    extracted_jobs,        \* OrchestratorState.extracted_jobs
    match_cards,           \* OrchestratorState.match_cards
    conversation_history,  \* OrchestratorState.conversation_history (roles of the entries)
    errors,                \* OrchestratorState.errors
    accumulated_traits,    \* ProfilerAgent.accumulated_traits
    profiler_history,      \* ProfilerAgent.conversation_history (roles of the entries)
    search_history,        \* ScoutAgent.search_history (number of search records)
    analysis_history,      \* AnalystAgent.analysis_history (number of records)
    result,                \* what the last call of process_quiz_response returned
    event,                 \* what happened in the last operation (inputs and outcomes of the collaborators)
    turns,                 \* number of process_quiz_response calls since construction or reset
    obs_log,               \* the TraitObjects merged so far (accumulator specification)
    arg_user,              \* argument: a user trait dict
    arg_job_traits,        \* argument: a job requirement dict
    arg_jobs,              \* argument: a list of job records
    arg_score,             \* argument: a compatibility score, in sixtieths
    ret,                   \* return value of the function applied
    called                 \* which function has been applied ("none" before the call)

vars == <<workflow_state, user_profile, extracted_jobs, match_cards,
          conversation_history, errors, accumulated_traits, profiler_history,
          search_history, analysis_history, result, event, turns, obs_log,
          arg_user, arg_job_traits, arg_jobs, arg_score, ret, called>>

session_vars == <<workflow_state, user_profile, extracted_jobs, match_cards,
                  conversation_history, errors, profiler_history,
                  search_history, analysis_history, result, event, turns>>

arg_vars == <<arg_user, arg_job_traits, arg_jobs, arg_score, ret, called>>

-----------------------------------------------------------------------------
(* Bounds *)

MaxMerges == 2        \* merges in a run of the accumulator specification
MaxObsKeywords == 2   \* length of a TraitObject's extracted_keywords
MaxDims == 3          \* trait keys the scorer's arguments range over
MaxTurns == 2         \* quiz responses per session
MaxJobs == 3          \* jobs in a batch handed to the analyst
MaxApplicants == 320  \* applicant count of a job record

-----------------------------------------------------------------------------
(* Vocabulary *)

Levels == {"low", "medium", "high"}

\* profiler_agent.py _merge_traits: the scalar fields, in loop order
ScalarFields == <<"resilience", "leadership", "technical_aptitude", "problem_solving",
                  "teamwork", "communication", "creativity">>

\* analyst_agent.py _extract_job_traits: the keys of the job trait dict, in insertion order
ComparableTraits == <<"resilience", "leadership", "technical_aptitude", "problem_solving",
                      "teamwork", "communication">>

EnvironmentValues == {"fast_paced", "structured", "flexible", "mixed"}
WorkStyleValues == {"independent", "collaborative", "mixed"}

Keywords == {"nurse", "python"}

Range(s) == {s[i] : i \in 1..Len(s)}

Min(a, b) == IF a <= b THEN a ELSE b

\* dict.get(k, d)
Get(p, k, d) == IF k \in DOMAIN p THEN p[k] ELSE d

\* the empty dict {}
EmptyDict == [k \in {} |-> "None"]

\* sequences over S of length at most n
RECURSIVE SeqsUpTo(_, _)
SeqsUpTo(S, n) ==
    IF n = 0 THEN {<<>>}
    ELSE LET shorter == SeqsUpTo(S, n - 1)
         IN  shorter \cup {Append(s, x) : s \in {t \in shorter : Len(t) = n - 1}, x \in S}

-----------------------------------------------------------------------------
(* ProfilerAgent: the accumulated profile and the merge *)

\* ProfilerAgent.__init__ / reset: the all-neutral profile
InitialTraits ==
    [resilience |-> "medium", leadership |-> "medium", technical_aptitude |-> "medium",
     problem_solving |-> "medium", teamwork |-> "medium", environment_preference |-> "mixed",
     communication |-> "medium", creativity |-> "medium", work_style |-> "mixed",
     keywords |-> {}, job_titles |-> <<>>]

\* ProfilerAgent._create_default_traits: the TraitObject returned when processing fails
DefaultTraitObject ==
    [resilience |-> "medium", leadership |-> "medium", technical_aptitude |-> "medium",
     problem_solving |-> "medium", teamwork |-> "medium", environment_preference |-> "mixed",
     communication |-> "medium", creativity |-> "medium", work_style |-> "mixed",
     extracted_keywords |-> <<>>, reasoning |-> "Default traits - error in processing"]

\* a mutant of _merge_traits: the new observation always overwrites (last-wins)
MergeLastWins(acc, new_traits) ==
    [resilience |-> new_traits.resilience, leadership |-> new_traits.leadership,
     technical_aptitude |-> new_traits.technical_aptitude,
     problem_solving |-> new_traits.problem_solving, teamwork |-> new_traits.teamwork,
     environment_preference |-> new_traits.environment_preference,
     communication |-> new_traits.communication, creativity |-> new_traits.creativity,
     work_style |-> new_traits.work_style,
     keywords |-> acc.keywords \cup Range(new_traits.extracted_keywords),
     job_titles |-> acc.job_titles]

\* a mutant of _merge_traits: the observation's keywords replace the accumulated ones
MergeReplacesKeywords(acc, new_traits) ==
    LET scalar(f) == IF new_traits[f] # "medium" THEN new_traits[f] ELSE acc[f]
        categorical(f) == IF new_traits[f] # "mixed" THEN new_traits[f] ELSE acc[f]
    IN  [resilience |-> scalar("resilience"), leadership |-> scalar("leadership"),
         technical_aptitude |-> scalar("technical_aptitude"),
         problem_solving |-> scalar("problem_solving"), teamwork |-> scalar("teamwork"),
         environment_preference |-> categorical("environment_preference"),
         communication |-> scalar("communication"), creativity |-> scalar("creativity"),
         work_style |-> categorical("work_style"),
         keywords |-> Range(new_traits.extracted_keywords),
         job_titles |-> acc.job_titles]

\* ProfilerAgent._merge_traits: the accumulated dict after merging new_traits
_merge_traits(acc, new_traits) ==
    LET scalar(f) == IF new_traits[f] # "medium" THEN new_traits[f] ELSE acc[f]
        categorical(f) == IF new_traits[f] # "mixed" THEN new_traits[f] ELSE acc[f]
    IN  [resilience |-> scalar("resilience"), leadership |-> scalar("leadership"),
         technical_aptitude |-> scalar("technical_aptitude"),
         problem_solving |-> scalar("problem_solving"), teamwork |-> scalar("teamwork"),
         environment_preference |-> categorical("environment_preference"),
         communication |-> scalar("communication"), creativity |-> scalar("creativity"),
         work_style |-> categorical("work_style"),
         keywords |-> acc.keywords \cup Range(new_traits.extracted_keywords),
         job_titles |-> acc.job_titles]

\* the oracle's answers with one non-neutral field
OneFieldObs ==
    {[DefaultTraitObject EXCEPT ![ScalarFields[i]] = v, !.reasoning = "r"] :
        i \in 1..Len(ScalarFields), v \in Levels \ {"medium"}}
    \cup {[DefaultTraitObject EXCEPT !.environment_preference = v, !.reasoning = "r"] :
            v \in EnvironmentValues \ {"mixed"}}
    \cup {[DefaultTraitObject EXCEPT !.work_style = v, !.reasoning = "r"] :
            v \in WorkStyleValues \ {"mixed"}}

\* answers with every field non-neutral
AllHighObs ==
    [resilience |-> "high", leadership |-> "high", technical_aptitude |-> "high",
     problem_solving |-> "high", teamwork |-> "high", environment_preference |-> "fast_paced",
     communication |-> "high", creativity |-> "high", work_style |-> "independent",
     extracted_keywords |-> <<>>, reasoning |-> "r"]

AllLowObs ==
    [resilience |-> "low", leadership |-> "low", technical_aptitude |-> "low",
     problem_solving |-> "low", teamwork |-> "low", environment_preference |-> "flexible",
     communication |-> "low", creativity |-> "low", work_style |-> "collaborative",
     extracted_keywords |-> <<>>, reasoning |-> "r"]

\* answers that carry only keywords (neutral on every trait)
KeywordObs ==
    {[DefaultTraitObject EXCEPT !.extracted_keywords = ks, !.reasoning = "r"] :
        ks \in SeqsUpTo(Keywords, MaxObsKeywords)}

\* the TraitObjects the accumulator specification merges
MergeObs == OneFieldObs \cup {AllHighObs, AllLowObs} \cup KeywordObs

-----------------------------------------------------------------------------
(* utils: the compatibility scorer *)

\* utils._compare_levels: level_order.get(level, 2)
LevelOrder(level) ==
    CASE level = "low" -> 1
      [] level = "medium" -> 2
      [] level = "high" -> 3
      [] OTHER -> 2

\* a mutant of _compare_levels: only an exact match of the levels counts
CompareLevelsExact(user_level, required_level) ==
    LevelOrder(user_level) = LevelOrder(required_level)

\* utils._compare_levels
_compare_levels(user_level, required_level) ==
    LevelOrder(user_level) >= LevelOrder(required_level)

\* utils.calculate_compatibility_score, in sixtieths
calculate_compatibility_score(user_traits, job_traits) ==
    IF DOMAIN user_traits = {} \/ DOMAIN job_traits = {}
    THEN 0
    ELSE LET total_traits == Cardinality(DOMAIN job_traits)
             matching_traits ==
                 Cardinality({trait \in DOMAIN job_traits :
                                 /\ trait \in DOMAIN user_traits
                                 /\ _compare_levels(user_traits[trait], job_traits[trait])})
         IN  IF total_traits > 0
             THEN Min(60, (60 * matching_traits) \div total_traits)
             ELSE 30

-----------------------------------------------------------------------------
(* Strings: str.lower() and the substring test `word in text` *)

UpperCaseLetters == "ABCDEFGHIJKLMNOPQRSTUVWXYZ"
LowerCaseLetters == "abcdefghijklmnopqrstuvwxyz"

LowerChar(c) ==
    IF \E i \in 1..Len(UpperCaseLetters) : SubSeq(UpperCaseLetters, i, i) = c
    THEN LET i == CHOOSE k \in 1..Len(UpperCaseLetters) : SubSeq(UpperCaseLetters, k, k) = c
         IN  SubSeq(LowerCaseLetters, i, i)
    ELSE c

\* str.lower(), by halves
RECURSIVE lower(_)
lower(s) ==
    IF Len(s) = 0 THEN ""
    ELSE IF Len(s) = 1 THEN LowerChar(s)
    ELSE lower(SubSeq(s, 1, Len(s) \div 2)) \o lower(SubSeq(s, Len(s) \div 2 + 1, Len(s)))

UpperChar(c) ==
    IF \E i \in 1..Len(LowerCaseLetters) : SubSeq(LowerCaseLetters, i, i) = c
    THEN LET i == CHOOSE k \in 1..Len(LowerCaseLetters) : SubSeq(LowerCaseLetters, k, k) = c
         IN  SubSeq(UpperCaseLetters, i, i)
    ELSE c

IsLetter(c) == LowerChar(c) # c \/ UpperChar(c) # c

\* str.replace(old, new) for one-character old and new
RECURSIVE str_replace(_, _, _)
str_replace(s, old, new) ==
    IF Len(s) = 0 THEN ""
    ELSE str_replace(SubSeq(s, 1, Len(s) - 1), old, new)
         \o (IF SubSeq(s, Len(s), Len(s)) = old THEN new ELSE SubSeq(s, Len(s), Len(s)))

\* str.title(): a letter is upper-cased when no letter precedes it, lower-cased otherwise
RECURSIVE str_title(_)
str_title(s) ==
    IF Len(s) = 0 THEN ""
    ELSE LET n == Len(s)
             c == SubSeq(s, n, n)
         IN  str_title(SubSeq(s, 1, n - 1))
             \o (IF n = 1 \/ ~IsLetter(SubSeq(s, n - 1, n - 1)) THEN UpperChar(c)
                 ELSE LowerChar(c))

\* word in text
Contains(text, word) ==
    \E i \in 1..(Len(text) - Len(word) + 1) : SubSeq(text, i, i + Len(word) - 1) = word

\* any(word in text for word in words)
ContainsAny(text, words) == \E word \in words : Contains(text, word)

-----------------------------------------------------------------------------
(* Job records.  The jobs of the repository's tests and of the scout's mock   *)
(* job source; a job is a dict, so a key may be missing.                     *)

\* test_agents.py test_batch_analyze_jobs
JobManager ==
    [title |-> "Manager", company |-> "Corp1", description |-> "Lead team", applicants |-> 50]
JobEngineer ==
    [title |-> "Engineer", company |-> "Corp2", description |-> "Technical work",
     applicants |-> 100]
\* test_agents.py test_analyze_job_fit
JobProjectManager ==
    [title |-> "Project Manager", company |-> "Acme Corp",
     description |-> "Lead projects in a fast-paced environment", applicants |-> 50]
\* scout_agent.py _get_mock_results
JobBackend ==
    [title |-> "Backend Engineer", company |-> "StableCorpServices", location |-> "London, ON",
     description |-> "Develop backend systems in a structured environment. Focus on code quality and testing.",
     link |-> "https://example.com/job4", applicants |-> 180, salary_range |-> "$80k - $115k"]
\* test_agents.py test_get_top_matches
JobPlain ==
    [title |-> "Job0", company |-> "Corp0", description |-> "A job", applicants |-> 50]
\* a record of the job source whose description is null
JobNullDescription ==
    [title |-> "Intern", company |-> "Corp3", description |-> "None", applicants |-> 20]

\* test_agents.py test_deduplicate_jobs
JobAcmeManager == [title |-> "Manager", company |-> "Acme", location |-> "London"]
JobTechCorpEngineer == [title |-> "Engineer", company |-> "TechCorp", location |-> "London"]
\* the same posting returned for another location, and the Backend Engineer
\* posting returned again by a later query with another applicant count
JobAcmeManagerOntario == [JobAcmeManager EXCEPT !.location = "London, ON"]
JobBackendLater == [JobBackend EXCEPT !.applicants = 181]

\* the records the job source returns to the scout over the queries of a pass
ScoutJobs == {JobAcmeManager, JobTechCorpEngineer, JobAcmeManagerOntario, JobBackend,
              JobBackendLater, JobManager}

\* titles and descriptions of job records: the tests', the mock job source's, and
\* one posting of the job source that names every kind of requirement
AnalystTitles == {"Job0", "Manager", "Software Engineer Manager", "911 Dispatcher",
                  "Project Manager - Client Services"}
AnalystDescriptions ==
    {"A job", "Lead team", "Technical work",
     "Lead a team of engineers in a fast-paced, high-pressure startup environment. Requires strong technical and leadership skills.",
     "Lead cross-functional teams in delivering software projects. Requires strong leadership, fast-paced environment.",
     "Manage client projects with focus on communication and collaboration. Work in structured, professional environment.",
     "Build scalable web applications. High-pressure, fast-paced startup environment. Strong problem-solving required.",
     "Develop backend systems in a structured environment. Focus on code quality and testing.",
     "Dispatch emergency responders. High-pressure environment requiring quick decision-making and stress resilience.",
     "Handle emergency calls and coordinate response teams. Requires resilience and calm under pressure.",
     "SOLVE urgent problems, Present to Stakeholders, work together with the group to architect the platform. You are the head of delivery."}
AnalystJobs ==
    {[title |-> t, company |-> "TechCorp", description |-> d] :
        t \in AnalystTitles, d \in AnalystDescriptions}

JobCatalogue == {JobManager, JobEngineer, JobProjectManager, JobBackend, JobPlain,
                 JobNullDescription}

-----------------------------------------------------------------------------
(* AnalystAgent *)

\* a mutant of _extract_job_traits: only the title is searched
ExtractJobTraitsTitleOnly(job) ==
    LET combined_text == lower(Get(job, "title", ""))
        hit(words) == IF ContainsAny(combined_text, words) THEN "high" ELSE "medium"
    IN  [resilience |-> hit({"pressure", "fast-paced", "emergency", "urgent", "crisis", "resilient"}),
         leadership |-> hit({"lead", "manage", "team", "director", "manager", "head"}),
         technical_aptitude |-> hit({"develop", "code", "technical", "engineer", "architect", "software"}),
         problem_solving |-> hit({"analyze", "solve", "problem", "critical", "strategic", "optimize"}),
         teamwork |-> hit({"collaborate", "team", "group", "together", "communication"}),
         communication |-> hit({"communicate", "present", "speak", "client", "stakeholder"})]

\* AnalystAgent._extract_job_traits
_extract_job_traits(job) ==
    LET combined_text == lower(Get(job, "title", "")) \o " " \o lower(Get(job, "description", ""))
        hit(words) == IF ContainsAny(combined_text, words) THEN "high" ELSE "medium"
    IN  [resilience |-> hit({"pressure", "fast-paced", "emergency", "urgent", "crisis", "resilient"}),
         leadership |-> hit({"lead", "manage", "team", "director", "manager", "head"}),
         technical_aptitude |-> hit({"develop", "code", "technical", "engineer", "architect", "software"}),
         problem_solving |-> hit({"analyze", "solve", "problem", "critical", "strategic", "optimize"}),
         teamwork |-> hit({"collaborate", "team", "group", "together", "communication"}),
         communication |-> hit({"communicate", "present", "speak", "client", "stakeholder"})]

\* the job trait dicts of the catalogue, computed once
JobTraitsTable ==
    {<<job, _extract_job_traits(job)>> : job \in JobCatalogue \cup AnalystJobs}
JobTraitsOf(job) == (CHOOSE entry \in JobTraitsTable : entry[1] = job)[2]

\* a mutant of _generate_recommendation: the bounds are open
RecommendationOpenBounds(compatibility_score) ==
    IF compatibility_score > 48 THEN "Strong Match"
    ELSE IF compatibility_score > 36 THEN "Good Fit"
    ELSE IF compatibility_score > 24 THEN "Consider"
    ELSE "Not Aligned"

\* AnalystAgent._generate_recommendation (0.8, 0.6 and 0.4 are 48, 36 and 24 sixtieths)
_generate_recommendation(compatibility_score) ==
    IF compatibility_score >= 48 THEN "Strong Match"
    ELSE IF compatibility_score >= 36 THEN "Good Fit"
    ELSE IF compatibility_score >= 24 THEN "Consider"
    ELSE "Not Aligned"

\* a mutant of _assess_market_availability: a missing count is taken as 0
MarketAvailabilityDefaultZero(job) ==
    LET applicants == Get(job, "applicants", 0)
    IN  IF applicants < 30 THEN "High Availability (Few Applicants)"
        ELSE IF applicants < 100 THEN "Moderate Availability"
        ELSE IF applicants < 300 THEN "Competitive Market"
        ELSE "Highly Competitive (Many Applicants)"

\* AnalystAgent._assess_market_availability
_assess_market_availability(job) ==
    LET applicants == Get(job, "applicants", 100)
    IN  IF applicants < 30 THEN "High Availability (Few Applicants)"
        ELSE IF applicants < 100 THEN "Moderate Availability"
        ELSE IF applicants < 300 THEN "Competitive Market"
        ELSE "Highly Competitive (Many Applicants)"

\* whether analyze_job_fit raises on this job: None has no lower()
AnalysisRaises(job) == Get(job, "description", "") = "None" \/ Get(job, "title", "") = "None"

\* _identify_trait_alignment: level_map.get(level, 2)
level_map(level) ==
    CASE level = "low" -> 1
      [] level = "medium" -> 2
      [] level = "high" -> 3
      [] OTHER -> 2

\* a mutant of the labelling: a user one level below the job is not matched
TraitLabelStrict(user_val, job_val) ==
    IF user_val >= job_val THEN "Strong" ELSE "Developing"

\* _identify_trait_alignment: the branch taken for one trait
TraitLabel(user_val, job_val) ==
    IF user_val >= job_val THEN "Strong"
    ELSE IF user_val = job_val - 1 THEN "Good"
    ELSE "Developing"

\* f"{label} {trait.replace('_', ' ').title()}"
LabelText(label, trait) == label \o " " \o str_title(str_replace(trait, "_", " "))

\* the label texts of the comparable traits, computed once
LabelTextTable ==
    {<<label, ComparableTraits[i], LabelText(label, ComparableTraits[i])>> :
        label \in {"Strong", "Good", "Developing"}, i \in 1..Len(ComparableTraits)}
LabelTextOf(label, trait) ==
    (CHOOSE entry \in LabelTextTable : entry[1] = label /\ entry[2] = trait)[3]

\* the keys of a job trait dict in iteration order: the dict is built in the order
\* of ComparableTraits
RECURSIVE TraitsInOrder(_, _)
TraitsInOrder(job_traits, n) ==
    IF n = 0 THEN <<>>
    ELSE TraitsInOrder(job_traits, n - 1)
         \o (IF ComparableTraits[n] \in DOMAIN job_traits THEN <<ComparableTraits[n]>>
             ELSE <<>>)

\* the loop of _identify_trait_alignment over the traits: the two lists it builds
RECURSIVE AlignmentLoop(_, _, _)
AlignmentLoop(profile, job_traits, traits) ==
    IF Len(traits) = 0 THEN [matched |-> <<>>, unmatched |-> <<>>]
    ELSE LET before == AlignmentLoop(profile, job_traits,
                                     SubSeq(traits, 1, Len(traits) - 1))
             trait == traits[Len(traits)]
             user_val == level_map(Get(profile, trait, "medium"))
             job_val == level_map(Get(job_traits, trait, "medium"))
             label == TraitLabel(user_val, job_val)
         IN  IF label = "Developing"
             THEN [before EXCEPT !.unmatched = Append(@, LabelTextOf(label, trait))]
             ELSE [before EXCEPT !.matched = Append(@, LabelTextOf(label, trait))]

\* list[:n]
Take(list, n) == SubSeq(list, 1, Min(n, Len(list)))

\* AnalystAgent._identify_trait_alignment: matched[:5], unmatched[:3]
_identify_trait_alignment(profile, job_traits) ==
    LET lists == AlignmentLoop(profile, job_traits,
                               TraitsInOrder(job_traits, Len(ComparableTraits)))
    IN  [matched |-> Take(lists.matched, 5), unmatched |-> Take(lists.unmatched, 3)]

\* a mutant of _identify_strengths: no fallback string
IdentifyStrengthsNoFallback(matched_traits) == Take(matched_traits, 3)

\* AnalystAgent._identify_strengths
_identify_strengths(matched_traits) ==
    IF matched_traits # <<>> THEN Take(matched_traits, 3)
    ELSE <<"Potential for role growth">>

\* AnalystAgent._identify_growth_areas
_identify_growth_areas(unmatched_traits) ==
    IF unmatched_traits = <<>>
    THEN <<"Continue skill development in technical areas">>
    ELSE [i \in 1..Min(2, Len(unmatched_traits)) |-> "Develop " \o unmatched_traits[i]]

\* ", ".join-style joining: sep.join(parts)
RECURSIVE str_join(_, _)
str_join(sep, parts) ==
    IF Len(parts) = 0 THEN ""
    ELSE IF Len(parts) = 1 THEN parts[1]
    ELSE str_join(sep, SubSeq(parts, 1, Len(parts) - 1)) \o sep \o parts[Len(parts)]

\* int(compatibility_score * 100): the score towards zero, in whole percent
match_percentage(compatibility_score) == (compatibility_score * 100) \div 60

\* f"{score*100:.0f}": the score in percent rounded to the nearest integer, a tie to
\* the even one
FormatPercent(score) ==
    LET whole == (score * 100) \div 60
        rest == (score * 100) % 60
        rounded == IF 2 * rest > 60 \/ (2 * rest = 60 /\ whole % 2 = 1) THEN whole + 1
                   ELSE whole
    IN  ToString(rounded)

\* the three templated observations of _generate_reasoning
ProblemSolvingObservation ==
    "Your strong problem-solving skills align well with this role's analytical demands."
ResilienceObservation ==
    "This fast-paced environment matches your ability to thrive under pressure."
LeadershipObservation ==
    "Your leadership capabilities are well-suited for this management track."

\* the generic sentence of _generate_reasoning
GenericReasoning(company, job_title) ==
    "The overall skill profile and work style preferences align with what " \o company
    \o " is looking for in this " \o job_title \o " position."

\* the tests _generate_reasoning makes on the job's description and title
ReasoningCues(job) ==
    LET job_title == Get(job, "title", "this role")
        description == Get(job, "description", "")
    IN  [analytical |-> \/ Contains(lower(description), "problem")
                        \/ Contains(lower(description), "analyze"),
         pressure |-> \/ Contains(lower(description), "fast-paced")
                      \/ Contains(lower(description), "pressure"),
         management |-> ContainsAny(lower(job_title), {"manager", "lead", "director"})]

\* the tests on the jobs of the catalogue, computed once
ReasoningCuesTable ==
    {<<job, ReasoningCues(job)>> : job \in JobCatalogue \cup AnalystJobs}
ReasoningCuesOf(job) == (CHOOSE entry \in ReasoningCuesTable : entry[1] = job)[2]

\* AnalystAgent._generate_reasoning
_generate_reasoning(job, profile, score) ==
    LET job_title == Get(job, "title", "this role")
        company == Get(job, "company", "this company")
        cues == ReasoningCuesOf(job)
        header == <<FormatPercent(score) \o "% Match - " \o _generate_recommendation(score)>>
        analytical == IF Get(profile, "problem_solving", "None") = "high" /\ cues.analytical
                      THEN <<ProblemSolvingObservation>> ELSE <<>>
        pressure == IF Get(profile, "resilience", "None") = "high" /\ cues.pressure
                    THEN <<ResilienceObservation>> ELSE <<>>
        management == IF Get(profile, "leadership", "None") = "high" /\ cues.management
                      THEN <<LeadershipObservation>> ELSE <<>>
        reasoning_parts == header \o analytical \o pressure \o management
    IN  str_join(" ", IF Len(reasoning_parts) = 0 \/ Len(reasoning_parts) = 1
                      THEN Append(reasoning_parts, GenericReasoning(company, job_title))
                      ELSE reasoning_parts)

\* AnalystAgent.analyze_job_fit: the MatchCard of a job that is analysed
analyze_job_fit(job, profile) ==
    LET job_traits == JobTraitsOf(job)
        alignment == _identify_trait_alignment(profile, job_traits)
        user_traits_for_scoring ==
            [trait \in Range(ComparableTraits) |-> Get(profile, trait, "medium")]
        compatibility_score == calculate_compatibility_score(user_traits_for_scoring, job_traits)
    IN  [job_title |-> Get(job, "title", "Unknown"),
         company |-> Get(job, "company", "Unknown"),
         compatibility_score |-> compatibility_score,
         match_percentage |-> match_percentage(compatibility_score),
         reasoning |-> _generate_reasoning(job, profile, compatibility_score),
         matched_traits |-> alignment.matched,
         unmatched_traits |-> alignment.unmatched,
         recommendation |-> _generate_recommendation(compatibility_score),
         market_availability |-> _assess_market_availability(job),
         key_strengths |-> _identify_strengths(alignment.matched),
         growth_areas |-> _identify_growth_areas(alignment.unmatched)]

\* a mutant of the sort: a card goes before the cards of equal score
InsertBeforeEqual(sorted, card) ==
    LET before == {i \in 1..Len(sorted) :
                      sorted[i].compatibility_score > card.compatibility_score}
        k == Cardinality(before)
    IN  SubSeq(sorted, 1, k) \o <<card>> \o SubSeq(sorted, k + 1, Len(sorted))

\* list.sort(key=score, reverse=True) is a stable sort: taking the cards in list
\* order, each goes after every card whose score is at least its own
SortInsert(sorted, card) ==
    LET before == {i \in 1..Len(sorted) :
                      sorted[i].compatibility_score >= card.compatibility_score}
        k == Cardinality(before)
    IN  SubSeq(sorted, 1, k) \o <<card>> \o SubSeq(sorted, k + 1, Len(sorted))

RECURSIVE SortByScoreDesc(_)
SortByScoreDesc(cards) ==
    IF Len(cards) = 0 THEN <<>>
    ELSE SortInsert(SortByScoreDesc(SubSeq(cards, 1, Len(cards) - 1)), cards[Len(cards)])

\* a mutant of the loop of batch_analyze_jobs: no try/except around a job's
\* analysis, the jobs from the first failing one on yield no card
RECURSIVE AnalysedCardsUntilFailure(_, _)
AnalysedCardsUntilFailure(jobs, profile) ==
    IF Len(jobs) = 0 THEN <<>>
    ELSE IF \E i \in 1..Len(jobs) : AnalysisRaises(jobs[i])
    THEN LET first == CHOOSE i \in 1..Len(jobs) :
                         /\ AnalysisRaises(jobs[i])
                         /\ \A j \in 1..(i - 1) : ~AnalysisRaises(jobs[j])
         IN  AnalysedCardsUntilFailure(SubSeq(jobs, 1, first - 1), profile)
    ELSE Append(AnalysedCardsUntilFailure(SubSeq(jobs, 1, Len(jobs) - 1), profile),
                analyze_job_fit(jobs[Len(jobs)], profile))

\* the cards appended by the loop of batch_analyze_jobs, before the sort
RECURSIVE AnalysedCards(_, _)
AnalysedCards(jobs, profile) ==
    IF Len(jobs) = 0 THEN <<>>
    ELSE LET job == jobs[Len(jobs)]
             rest == AnalysedCards(SubSeq(jobs, 1, Len(jobs) - 1), profile)
         IN  IF AnalysisRaises(job) THEN rest ELSE Append(rest, analyze_job_fit(job, profile))

\* AnalystAgent.batch_analyze_jobs
batch_analyze_jobs(jobs, profile) == SortByScoreDesc(AnalysedCards(jobs, profile))

-----------------------------------------------------------------------------
(* ProfilerAgent: the lexical fallback and one processed response *)

\* the user's answers (test_agents.py test_full_workflow); None is a missing answer
UserTexts == {"I love leading teams in high-pressure situations",
              "I solve complex technical problems",
              "I thrive in fast-paced startups"}
NoneInput == "None"
UserInputs == UserTexts \cup {NoneInput}

\* ProfilerAgent._fallback_trait_extraction
_fallback_trait_extraction(user_input) ==
    LET input_lower == lower(user_input)
        hit(words) == IF ContainsAny(input_lower, words) THEN "high" ELSE "medium"
    IN  [resilience |-> hit({"overcome", "challenge", "difficult", "pressure"}),
         leadership |-> hit({"lead", "manage", "team", "organize"}),
         technical_aptitude |-> hit({"code", "build", "develop", "technical"}),
         problem_solving |-> hit({"solve", "analyze", "debug", "figure"}),
         teamwork |-> hit({"team", "collaborate", "together", "group"}),
         environment_preference |-> "mixed",
         communication |-> hit({"present", "speak", "communicate", "explain"}),
         creativity |-> hit({"creative", "design", "innovate", "idea"}),
         work_style |-> "mixed",
         extracted_keywords |-> <<>>,
         reasoning |-> "Fallback extraction due to parsing error"]

\* the fallback's output for each answer, computed once
FallbackTable == {<<text, _fallback_trait_extraction(text)>> : text \in UserTexts}
FallbackOf(text) == (CHOOSE entry \in FallbackTable : entry[1] = text)[2]

\* the oracle's structured answers in a session
OracleObs ==
    {[DefaultTraitObject EXCEPT !.reasoning = "r"],
     [DefaultTraitObject EXCEPT !.leadership = "high", !.technical_aptitude = "high",
                                !.reasoning = "r"],
     [DefaultTraitObject EXCEPT !.resilience = "low", !.problem_solving = "high",
                                !.environment_preference = "fast_paced", !.reasoning = "r"],
     [DefaultTraitObject EXCEPT !.extracted_keywords = <<"nurse", "nurse">>, !.reasoning = "r"],
     [DefaultTraitObject EXCEPT !.leadership = "low", !.work_style = "collaborative",
                                !.reasoning = "r"]}

\* what the oracle call does: an answer that is a TraitObject in JSON, an answer
\* that is not JSON (json.JSONDecodeError), an answer that is JSON but not a
\* TraitObject (TraitObject(**traits_dict) raises), or an exception of the call
OracleOutcomes ==
    {[kind |-> "json", traits |-> obs] : obs \in OracleObs}
    \cup {[kind |-> "unparseable", traits |-> DefaultTraitObject],
          [kind |-> "invalid", traits |-> DefaultTraitObject],
          [kind |-> "raises", traits |-> DefaultTraitObject]}

\* the outcomes that raise inside the try block of process_user_response
OracleFailures == {"raises", "invalid"}

\* a mutant of process_user_response: no lexical fallback, an answer that is not
\* JSON is handled like any other failure
ProcessUserResponseNoFallback(acc, history, user_input, oracle) ==
    IF user_input = NoneInput
    THEN [escaped |-> TRUE, trait_object |-> DefaultTraitObject,
          accumulated_traits |-> acc, conversation_history |-> history]
    ELSE IF oracle.kind \in OracleFailures \cup {"unparseable"}
    THEN [escaped |-> FALSE, trait_object |-> DefaultTraitObject,
          accumulated_traits |-> acc,
          conversation_history |-> Append(history, "user")]
    ELSE [escaped |-> FALSE, trait_object |-> oracle.traits,
          accumulated_traits |-> _merge_traits(acc, oracle.traits),
          conversation_history |-> history \o <<"user", "profiler">>]

\* a mutant of process_user_response: no try/except around the oracle call, so
\* its exception escapes
ProcessUserResponseUnguarded(acc, history, user_input, oracle) ==
    IF user_input = NoneInput \/ oracle.kind \in OracleFailures
    THEN [escaped |-> TRUE, trait_object |-> DefaultTraitObject,
          accumulated_traits |-> acc, conversation_history |-> history]
    ELSE LET trait_obj == IF oracle.kind = "json" THEN oracle.traits
                          ELSE FallbackOf(user_input)
         IN  [escaped |-> FALSE, trait_object |-> trait_obj,
              accumulated_traits |-> _merge_traits(acc, trait_obj),
              conversation_history |-> history \o <<"user", "profiler">>]

\* ProfilerAgent.process_user_response: the returned TraitObject, the profiler's
\* fields after the call, and whether an exception escaped the call
process_user_response(acc, history, user_input, oracle) ==
    IF user_input = NoneInput
    THEN \* user_input[:100] raises before the history is touched
         [escaped |-> TRUE, trait_object |-> DefaultTraitObject,
          accumulated_traits |-> acc, conversation_history |-> history]
    ELSE IF oracle.kind \in OracleFailures
    THEN \* the except branch: _create_default_traits(), nothing merged
         [escaped |-> FALSE, trait_object |-> DefaultTraitObject,
          accumulated_traits |-> acc,
          conversation_history |-> Append(history, "user")]
    ELSE LET trait_obj == IF oracle.kind = "json" THEN oracle.traits
                          ELSE FallbackOf(user_input)
         IN  [escaped |-> FALSE, trait_object |-> trait_obj,
              accumulated_traits |-> _merge_traits(acc, trait_obj),
              conversation_history |-> history \o <<"user", "profiler">>]

-----------------------------------------------------------------------------
(* ScoutAgent *)

\* ScoutAgent._has_sufficient_profile_data
_has_sufficient_profile_data(profile) ==
    \/ \A field \in {"resilience", "problem_solving", "environment_preference"} :
          field \in DOMAIN profile /\ profile[field] # "medium"
    \/ Get(profile, "keywords", {}) # {}

\* ScoutAgent._generate_search_queries: the trait -> titles table
TraitToJobs(trait_name) ==
    CASE trait_name = "leadership" -> <<"Project Manager", "Team Lead", "Manager">>
      [] trait_name = "technical_aptitude" -> <<"Software Engineer", "Developer", "Architect">>
      [] trait_name = "problem_solving" -> <<"Data Analyst", "Business Analyst", "Engineer">>
      [] trait_name = "creativity" -> <<"Designer", "Creative Director", "Product Manager">>
      [] trait_name = "resilience" -> <<"Emergency Dispatcher", "Sales Manager", "Operations Manager">>
      [] OTHER -> <<>>

\* the keys of the accumulated profile, in insertion order
ProfileKeys == <<"resilience", "leadership", "technical_aptitude", "problem_solving",
                 "teamwork", "environment_preference", "communication", "creativity",
                 "work_style", "keywords", "job_titles">>

\* the keys whose value is a list: a list never equals "high"
ListKeys == {"keywords", "job_titles"}

\* the titles of the traits whose value is "high", in the profile's key order
RECURSIVE TraitQueries(_, _)
TraitQueries(profile, n) ==
    IF n = 0 THEN <<>>
    ELSE LET trait == ProfileKeys[n]
         IN  TraitQueries(profile, n - 1)
             \o (IF trait \in DOMAIN profile \ ListKeys /\ profile[trait] = "high"
                 THEN TraitToJobs(trait) ELSE <<>>)

\* the titles added for the environment preference
EnvironmentQueries(profile) ==
    IF Get(profile, "environment_preference", "None") = "fast_paced"
    THEN <<"Startup", "Consultant", "Operations Manager">>
    ELSE IF Get(profile, "environment_preference", "None") = "flexible"
    THEN <<"Remote Worker", "Contractor", "Consultant">>
    ELSE <<>>

\* keywords[:3] of a list in arbitrary order: the possible sets of its elements
KeywordSlices(profile) ==
    LET keywords == Get(profile, "keywords", {})
    IN  {K \in SUBSET keywords : Cardinality(K) = Min(3, Cardinality(keywords))}

\* the lists of m distinct elements of the set D: what list(set(...))[:m] can be,
\* the iteration order of a set of strings being arbitrary
RECURSIVE Arrangements(_, _)
Arrangements(D, m) ==
    IF m = 0 THEN {<<>>}
    ELSE UNION {{Append(s, x) : x \in D \ Range(s)} : s \in Arrangements(D, m - 1)}

\* keywords[:3]: the accumulated keywords are a list in arbitrary order
KeywordLists(profile) ==
    LET keywords == Get(profile, "keywords", {})
    IN  Arrangements(keywords, Min(3, Cardinality(keywords)))

\* the list `queries` before `list(set(queries))[:5]`
QueryCandidates(profile, keyword_list) ==
    TraitQueries(profile, Len(ProfileKeys)) \o keyword_list \o EnvironmentQueries(profile)

\* a mutant of the last step of the planner: duplicates removed, no limit
ListSetUntruncated(queries) ==
    Arrangements(Range(queries), Cardinality(Range(queries)))

\* list(set(queries))[:5]: the lists it can be
ListSetTruncated(queries) ==
    Arrangements(Range(queries), Min(5, Cardinality(Range(queries))))

\* ScoutAgent._generate_search_queries: the plans it can return, each with the
\* candidate list it was cut from
_generate_search_queries(profile) ==
    UNION {{[candidates |-> candidates,
             queries |-> IF plan # <<>> THEN plan
                         ELSE <<"Software Engineer", "Project Manager">>] :
               plan \in ListSetTruncated(candidates)} :
             candidates \in {QueryCandidates(profile, keyword_list) :
                                keyword_list \in KeywordLists(profile)}}

\* ScoutAgent._generate_search_queries: how many queries are returned when the
\* keyword slice is K (the distinct candidates, at most 5; the 2 defaults if none)
NumQueries(profile, K) ==
    LET distinct == Range(TraitQueries(profile, Len(ProfileKeys))) \cup K
                    \cup Range(EnvironmentQueries(profile))
    IN  IF distinct = {} THEN 2 ELSE Min(5, Cardinality(distinct))

\* the key ScoutAgent._deduplicate_jobs compares
JobId(job) == <<Get(job, "title", "None"), Get(job, "company", "None"),
                Get(job, "location", "None")>>

\* a mutant of _deduplicate_jobs: the last occurrence of a job is the one kept
RECURSIVE DeduplicateJobsKeepLast(_)
DeduplicateJobsKeepLast(jobs) ==
    IF Len(jobs) = 0 THEN <<>>
    ELSE LET unique == DeduplicateJobsKeepLast(SubSeq(jobs, 2, Len(jobs)))
             job == jobs[1]
         IN  IF \E i \in 1..Len(unique) : JobId(unique[i]) = JobId(job)
             THEN unique ELSE <<job>> \o unique

\* ScoutAgent._deduplicate_jobs
RECURSIVE _deduplicate_jobs(_)
_deduplicate_jobs(jobs) ==
    IF Len(jobs) = 0 THEN <<>>
    ELSE LET unique == _deduplicate_jobs(SubSeq(jobs, 1, Len(jobs) - 1))
             job == jobs[Len(jobs)]
         IN  IF \E i \in 1..Len(unique) : JobId(unique[i]) = JobId(job)
             THEN unique ELSE Append(unique, job)

\* what the job source returns over the queries of one pass: the jobs of all
\* queries together, or a record that is not a dict
SourceOutcomes ==
    {[kind |-> "jobs", jobs |-> <<>>],
     [kind |-> "jobs", jobs |-> <<JobManager, JobEngineer>>],
     [kind |-> "jobs", jobs |-> <<JobProjectManager, JobManager, JobProjectManager>>],
     [kind |-> "jobs", jobs |-> <<JobNullDescription, JobPlain>>],
     [kind |-> "malformed", jobs |-> <<>>]}

\* ScoutAgent.find_matching_jobs: the returned jobs, the number of search records
\* appended, and whether the call raises
find_matching_jobs(profile, source, K) ==
    IF ~_has_sufficient_profile_data(profile)
    THEN [raises |-> FALSE, jobs |-> <<>>, searches |-> 0]
    ELSE [raises |-> source.kind = "malformed",
          jobs |-> _deduplicate_jobs(source.jobs),
          searches |-> NumQueries(profile, K)]

-----------------------------------------------------------------------------
(* OrchestratorAgent *)

\* a mutant of the search gate: one non-neutral trait is enough
ShouldTriggerSearchOne(profile) ==
    LET significant_traits == <<Get(profile, "resilience", "None"),
                                Get(profile, "leadership", "None"),
                                Get(profile, "technical_aptitude", "None")>>
        non_medium == Cardinality({i \in 1..3 : significant_traits[i] # "medium"})
    IN  non_medium >= 1 \/ Get(profile, "keywords", {}) # {}

\* OrchestratorAgent._should_trigger_search
_should_trigger_search(profile) ==
    LET significant_traits == <<Get(profile, "resilience", "None"),
                                Get(profile, "leadership", "None"),
                                Get(profile, "technical_aptitude", "None")>>
        non_medium == Cardinality({i \in 1..3 : significant_traits[i] # "medium"})
        has_keywords == Get(profile, "keywords", {}) # {}
    IN  non_medium >= 2 \/ has_keywords

\* a mutant of _execute_search_workflow: on a failure the error list is restarted
ExecuteSearchWorkflowRestartsErrors(st, source, K) ==
    LET found == find_matching_jobs(st.user_profile, source, K)
        searched == [st EXCEPT !.search_history = @ + found.searches]
    IN  IF found.raises
        THEN [searched EXCEPT !.workflow_state = "error",
                              !.errors = <<"Search workflow error">>,
                              !.phases = @ \o <<"searching", "error">>]
        ELSE IF found.jobs # <<>>
        THEN LET cards == batch_analyze_jobs(found.jobs, st.user_profile)
             IN  [searched EXCEPT !.extracted_jobs = found.jobs,
                                  !.match_cards = cards,
                                  !.analysis_history = @ + Len(cards),
                                  !.workflow_state = "completed",
                                  !.phases = @ \o <<"searching", "analyzing", "completed">>]
        ELSE [searched EXCEPT !.extracted_jobs = found.jobs,
                              !.workflow_state = "completed",
                              !.phases = @ \o <<"searching", "completed">>]

\* a mutant of _execute_search_workflow: the analysing phase is entered even when
\* no job was found
ExecuteSearchWorkflowAlwaysAnalyzes(st, source, K) ==
    LET found == find_matching_jobs(st.user_profile, source, K)
        searched == [st EXCEPT !.search_history = @ + found.searches]
    IN  IF found.raises
        THEN [searched EXCEPT !.workflow_state = "error",
                              !.errors = Append(@, "Search workflow error"),
                              !.phases = @ \o <<"searching", "error">>]
        ELSE LET cards == batch_analyze_jobs(found.jobs, st.user_profile)
             IN  [searched EXCEPT !.extracted_jobs = found.jobs,
                                  !.match_cards = IF found.jobs # <<>> THEN cards ELSE @,
                                  !.analysis_history = @ + Len(cards),
                                  !.workflow_state = "completed",
                                  !.phases = @ \o <<"searching", "analyzing", "completed">>]

\* OrchestratorAgent._execute_search_workflow: the session's fields after the call
_execute_search_workflow(st, source, K) ==
    LET found == find_matching_jobs(st.user_profile, source, K)
        searched == [st EXCEPT !.search_history = @ + found.searches]
    IN  IF found.raises
        THEN \* extracted_jobs is not assigned; the exception is caught here
             [searched EXCEPT !.workflow_state = "error",
                              !.errors = Append(@, "Search workflow error"),
                              !.phases = @ \o <<"searching", "error">>]
        ELSE IF found.jobs # <<>>
        THEN LET cards == batch_analyze_jobs(found.jobs, st.user_profile)
             IN  [searched EXCEPT !.extracted_jobs = found.jobs,
                                  !.match_cards = cards,
                                  !.analysis_history = @ + Len(cards),
                                  !.workflow_state = "completed",
                                  !.phases = @ \o <<"searching", "analyzing", "completed">>]
        ELSE \* match_cards is not assigned when no job is found
             [searched EXCEPT !.extracted_jobs = found.jobs,
                              !.workflow_state = "completed",
                              !.phases = @ \o <<"searching", "completed">>]

\* a mutant of the gate's use: the search workflow runs whatever the gate says
SearchStepUnguarded(should_search, st, source, K) ==
    _execute_search_workflow(st, source, K)

\* process_quiz_response, step 3: `if should_search: self._execute_search_workflow()`
SearchStep(should_search, st, source, K) ==
    IF should_search THEN _execute_search_workflow(st, source, K) ELSE st

\* OrchestratorAgent.process_quiz_response
ProcessQuizResponse(user_input, oracle, source) ==
    /\ turns < MaxTurns
    /\ turns' = turns + 1
    /\ LET prof == process_user_response(accumulated_traits, profiler_history,
                                         user_input, oracle)
       IN  IF prof.escaped
           THEN /\ workflow_state' = "error"
                /\ errors' = Append(errors, "Quiz processing error")
                /\ result' = [status |-> "error", message |-> "Quiz processing error",
                              workflow_state |-> "error"]
                /\ event' = [op |-> "quiz", input |-> user_input, escaped |-> TRUE,
                             oracle |-> IF user_input = NoneInput THEN "none"
                                        ELSE oracle.kind,
                             should_search |-> FALSE, source |-> "none",
                             phases |-> <<"profiling", "error">>]
                /\ UNCHANGED <<user_profile, extracted_jobs, match_cards,
                               conversation_history, accumulated_traits,
                               profiler_history, search_history, analysis_history>>
           ELSE \E K \in KeywordSlices(prof.accumulated_traits) :
                LET profile == prof.accumulated_traits
                    should_search == _should_trigger_search(profile)
                    st0 == [workflow_state |-> "profiling", user_profile |-> profile,
                            extracted_jobs |-> extracted_jobs, match_cards |-> match_cards,
                            errors |-> errors, search_history |-> search_history,
                            analysis_history |-> analysis_history,
                            phases |-> <<"profiling">>]
                    st == SearchStep(should_search, st0, source, K)
                IN  /\ accumulated_traits' = prof.accumulated_traits
                    /\ profiler_history' = prof.conversation_history
                    /\ user_profile' = st.user_profile
                    /\ workflow_state' = st.workflow_state
                    /\ extracted_jobs' = st.extracted_jobs
                    /\ match_cards' = st.match_cards
                    /\ errors' = st.errors
                    /\ search_history' = st.search_history
                    /\ analysis_history' = st.analysis_history
                    /\ conversation_history' = prof.conversation_history
                    /\ result' = [status |-> "success",
                                  workflow_state |-> st.workflow_state,
                                  traits |-> prof.trait_object,
                                  should_search |-> should_search,
                                  reasoning |-> prof.trait_object.reasoning]
                    /\ event' = [op |-> "quiz", input |-> user_input, escaped |-> FALSE,
                                 oracle |-> oracle.kind,
                                 should_search |-> should_search,
                                 source |-> IF st.search_history # search_history
                                            THEN source.kind ELSE "none",
                                 phases |-> st.phases]
    /\ UNCHANGED <<obs_log, arg_vars>>

\* a mutant of reset_session: the profiler is not reset
ResetSessionKeepsProfiler ==
    /\ event.op # "none"
    /\ workflow_state' = "idle"
    /\ user_profile' = EmptyDict
    /\ extracted_jobs' = <<>>
    /\ match_cards' = <<>>
    /\ conversation_history' = <<>>
    /\ errors' = <<>>
    /\ search_history' = 0
    /\ analysis_history' = 0
    /\ turns' = 0
    /\ event' = [op |-> "reset", input |-> NoneInput, escaped |-> FALSE, oracle |-> "none",
                 should_search |-> FALSE, source |-> "none", phases |-> <<"idle">>]
    /\ UNCHANGED <<accumulated_traits, profiler_history, result, obs_log, arg_vars>>

\* OrchestratorAgent.reset_session
ResetSession ==
    /\ event.op # "none"
    /\ workflow_state' = "idle"
    /\ user_profile' = EmptyDict
    /\ extracted_jobs' = <<>>
    /\ match_cards' = <<>>
    /\ conversation_history' = <<>>
    /\ errors' = <<>>
    /\ accumulated_traits' = InitialTraits
    /\ profiler_history' = <<>>
    /\ search_history' = 0
    /\ analysis_history' = 0
    /\ turns' = 0
    /\ event' = [op |-> "reset", input |-> NoneInput, escaped |-> FALSE, oracle |-> "none",
                 should_search |-> FALSE, source |-> "none", phases |-> <<"idle">>]
    /\ UNCHANGED <<result, obs_log, arg_vars>>

\* OrchestratorAgent.__init__ (with ProfilerAgent, ScoutAgent, AnalystAgent.__init__)
SessionInit ==
    /\ workflow_state = "idle"
    /\ user_profile = EmptyDict
    /\ extracted_jobs = <<>>
    /\ match_cards = <<>>
    /\ conversation_history = <<>>
    /\ errors = <<>>
    /\ accumulated_traits = InitialTraits
    /\ profiler_history = <<>>
    /\ search_history = 0
    /\ analysis_history = 0
    /\ result = [status |-> "none"]
    /\ event = [op |-> "none", input |-> NoneInput, escaped |-> FALSE, oracle |-> "none",
                should_search |-> FALSE, source |-> "none", phases |-> <<>>]
    /\ turns = 0

\* no function applied, no argument drawn
ArgsIdle ==
    /\ arg_user = EmptyDict
    /\ arg_job_traits = EmptyDict
    /\ arg_jobs = <<>>
    /\ arg_score = 0
    /\ ret = 0
    /\ called = "none"

Init == SessionInit /\ obs_log = <<>> /\ ArgsIdle

Next ==
    \/ \E user_input \in UserInputs, oracle \in OracleOutcomes, source \in SourceOutcomes :
          ProcessQuizResponse(user_input, oracle, source)
    \/ ResetSession

\* the session: quiz responses and resets
Spec == Init /\ [][Next]_vars

-----------------------------------------------------------------------------
(* The accumulator alone: a run of merges *)

MergeStep(obs) ==
    /\ Len(obs_log) < MaxMerges
    /\ accumulated_traits' = _merge_traits(accumulated_traits, obs)
    /\ obs_log' = Append(obs_log, obs)
    /\ UNCHANGED <<session_vars, arg_vars>>

NextMerge == \E obs \in MergeObs : MergeStep(obs)

SpecMerge == Init /\ [][NextMerge]_vars

-----------------------------------------------------------------------------
(* The scorer alone: calculate_compatibility_score on drawn arguments *)

\* the trait keys the scorer's arguments range over
ScoreKeys == {ComparableTraits[i] : i \in 1..Min(MaxDims, Len(ComparableTraits))}

\* the dicts over some of the keys, the empty dict included
PartialDicts == UNION {[D -> Levels] : D \in SUBSET ScoreKeys}

InitScore ==
    /\ SessionInit
    /\ obs_log = <<>>
    /\ arg_user \in PartialDicts
    /\ arg_job_traits \in PartialDicts
    /\ arg_jobs = <<>>
    /\ arg_score = 0
    /\ ret = 0
    /\ called = "none"

CallScore ==
    /\ called = "none"
    /\ ret' = calculate_compatibility_score(arg_user, arg_job_traits)
    /\ called' = "calculate_compatibility_score"
    /\ UNCHANGED <<session_vars, accumulated_traits, obs_log, arg_user, arg_job_traits,
                   arg_jobs, arg_score>>

SpecScore == InitScore /\ [][CallScore]_vars

-----------------------------------------------------------------------------
(* The search gate alone: _should_trigger_search on drawn profiles *)

\* accumulated profiles: every key present
GateProfiles ==
    {[InitialTraits EXCEPT !.resilience = r, !.leadership = l, !.technical_aptitude = t,
                           !.problem_solving = p, !.keywords = ks] :
        r \in Levels, l \in Levels, t \in Levels, p \in {"medium", "high"},
        ks \in SUBSET Keywords}

InitGate ==
    /\ SessionInit
    /\ obs_log = <<>>
    /\ arg_user \in GateProfiles
    /\ arg_job_traits = EmptyDict
    /\ arg_jobs = <<>>
    /\ arg_score = 0
    /\ ret = FALSE
    /\ called = "none"

CallGate ==
    /\ called = "none"
    /\ ret' = _should_trigger_search(arg_user)
    /\ called' = "_should_trigger_search"
    /\ UNCHANGED <<session_vars, accumulated_traits, obs_log, arg_user, arg_job_traits,
                   arg_jobs, arg_score>>

SpecGate == InitGate /\ [][CallGate]_vars

-----------------------------------------------------------------------------
(* The ranker alone: batch_analyze_jobs on drawn batches *)

\* user profiles: the initial one, the one of test_batch_analyze_jobs (a partial
\* dict), and the accumulated profiles after an all-high and an all-low answer
RankProfiles ==
    {InitialTraits,
     [leadership |-> "high", technical_aptitude |-> "medium"],
     _merge_traits(InitialTraits, AllHighObs),
     _merge_traits(InitialTraits, AllLowObs)}

InitRank ==
    /\ SessionInit
    /\ obs_log = <<>>
    /\ arg_user \in RankProfiles
    /\ arg_job_traits = EmptyDict
    /\ arg_jobs \in SeqsUpTo(JobCatalogue, MaxJobs)
    /\ arg_score = 0
    /\ ret = <<>>
    /\ called = "none"

CallBatch ==
    /\ called = "none"
    /\ ret' = batch_analyze_jobs(arg_jobs, arg_user)
    /\ called' = "batch_analyze_jobs"
    /\ UNCHANGED <<session_vars, accumulated_traits, obs_log, arg_user, arg_job_traits,
                   arg_jobs, arg_score>>

SpecRank == InitRank /\ [][CallBatch]_vars

-----------------------------------------------------------------------------
(* The scout alone: find_matching_jobs on drawn profiles and job source results *)

\* a profile the scout searches for (a keyword), and the all-neutral one it refuses
FindProfiles == {[InitialTraits EXCEPT !.keywords = {"nurse"}], InitialTraits}

InitFind ==
    /\ SessionInit
    /\ obs_log = <<>>
    /\ arg_user \in FindProfiles
    /\ arg_job_traits = EmptyDict
    /\ arg_jobs \in SeqsUpTo(ScoutJobs, MaxJobs)
    /\ arg_score = 0
    /\ ret = <<>>
    /\ called = "none"

CallFind ==
    /\ called = "none"
    /\ \E K \in KeywordSlices(arg_user) :
          ret' = find_matching_jobs(arg_user, [kind |-> "jobs", jobs |-> arg_jobs], K)
    /\ called' = "find_matching_jobs"
    /\ UNCHANGED <<session_vars, accumulated_traits, obs_log, arg_user, arg_job_traits,
                   arg_jobs, arg_score>>

SpecFind == InitFind /\ [][CallFind]_vars

-----------------------------------------------------------------------------
(* The analyst alone: one job record and one profile *)

InitAnalyst ==
    /\ SessionInit
    /\ obs_log = <<>>
    /\ arg_user \in RankProfiles
    /\ arg_job_traits = EmptyDict
    /\ arg_jobs \in {<<job>> : job \in AnalystJobs}
    /\ arg_score = 0
    /\ ret = <<>>
    /\ called = "none"

CallExtract ==
    /\ called = "none"
    /\ ret' = _extract_job_traits(arg_jobs[1])
    /\ called' = "_extract_job_traits"
    /\ UNCHANGED <<session_vars, accumulated_traits, obs_log, arg_user, arg_job_traits,
                   arg_jobs, arg_score>>

CallAnalyze ==
    /\ called = "none"
    /\ ret' = analyze_job_fit(arg_jobs[1], arg_user)
    /\ called' = "analyze_job_fit"
    /\ UNCHANGED <<session_vars, accumulated_traits, obs_log, arg_user, arg_job_traits,
                   arg_jobs, arg_score>>

NextAnalyst == CallExtract \/ CallAnalyze

SpecAnalyst == InitAnalyst /\ [][NextAnalyst]_vars

-----------------------------------------------------------------------------
(* The labelling alone: _identify_trait_alignment on drawn dicts *)

\* user profiles: the dicts over some of the first keys, and the full dicts in which
\* the other keys share one level
AlignProfiles ==
    PartialDicts
    \cup {[trait \in Range(ComparableTraits) |->
              IF trait \in ScoreKeys THEN first[trait] ELSE others] :
            first \in [ScoreKeys -> Levels], others \in Levels}

\* job trait dicts: dicts _extract_job_traits can return (the keys after the first
\* ones share one level), the one of test_identify_trait_alignment, and dicts that
\* require a low level
AlignVectors ==
    {[trait \in Range(ComparableTraits) |->
         IF trait \in ScoreKeys THEN first[trait] ELSE others] :
       first \in [ScoreKeys -> {"medium", "high"}], others \in {"medium", "high"}}
    \cup {[leadership |-> "high", technical_aptitude |-> "high", problem_solving |-> "high",
           communication |-> "medium"],
          [resilience |-> "low", leadership |-> "medium", technical_aptitude |-> "high"],
          [trait \in Range(ComparableTraits) |-> "low"]}

InitAlign ==
    /\ SessionInit
    /\ obs_log = <<>>
    /\ arg_user \in AlignProfiles
    /\ arg_job_traits \in AlignVectors
    /\ arg_jobs = <<>>
    /\ arg_score = 0
    /\ ret = <<>>
    /\ called = "none"

CallAlign ==
    /\ called = "none"
    /\ ret' = _identify_trait_alignment(arg_user, arg_job_traits)
    /\ called' = "_identify_trait_alignment"
    /\ UNCHANGED <<session_vars, accumulated_traits, obs_log, arg_user, arg_job_traits,
                   arg_jobs, arg_score>>

SpecAlign == InitAlign /\ [][CallAlign]_vars

-----------------------------------------------------------------------------
(* The recommendation band alone: _generate_recommendation on every score that *)
(* is a multiple of 1/60                                                       *)

InitBand ==
    /\ SessionInit
    /\ obs_log = <<>>
    /\ arg_user = EmptyDict
    /\ arg_job_traits = EmptyDict
    /\ arg_jobs = <<>>
    /\ arg_score \in 0..60
    /\ ret = ""
    /\ called = "none"

CallBand ==
    /\ called = "none"
    /\ ret' = _generate_recommendation(arg_score)
    /\ called' = "_generate_recommendation"
    /\ UNCHANGED <<session_vars, accumulated_traits, obs_log, arg_user, arg_job_traits,
                   arg_jobs, arg_score>>

SpecBand == InitBand /\ [][CallBand]_vars

-----------------------------------------------------------------------------
(* The market availability alone: _assess_market_availability on job records *)

\* the records of test_assess_market_availability, for every applicant count, and
\* a record with no count
MarketJobs ==
    {[title |-> "Rare Role", applicants |-> n] : n \in 0..MaxApplicants}
    \cup {[title |-> "Common Role"]}

InitMarket ==
    /\ SessionInit
    /\ obs_log = <<>>
    /\ arg_user = EmptyDict
    /\ arg_job_traits = EmptyDict
    /\ arg_jobs \in {<<job>> : job \in MarketJobs}
    /\ arg_score = 0
    /\ ret = ""
    /\ called = "none"

CallMarket ==
    /\ called = "none"
    /\ ret' = _assess_market_availability(arg_jobs[1])
    /\ called' = "_assess_market_availability"
    /\ UNCHANGED <<session_vars, accumulated_traits, obs_log, arg_user, arg_job_traits,
                   arg_jobs, arg_score>>

SpecMarket == InitMarket /\ [][CallMarket]_vars

-----------------------------------------------------------------------------
(* The query planner alone: _generate_search_queries, called and called again *)
(* on the same profile                                                        *)

\* profiles handed to the planner: all neutral; high on the two comparable traits
\* the table does not name; high on one trait; high on creativity; resilient in a
\* fast-paced environment (a title produced twice); high on two traits (six
\* titles); a flexible environment; four keywords
PlanProfiles ==
    {InitialTraits,
     [InitialTraits EXCEPT !.teamwork = "high", !.communication = "high"],
     [InitialTraits EXCEPT !.leadership = "high"],
     [InitialTraits EXCEPT !.creativity = "high", !.environment_preference = "structured"],
     [InitialTraits EXCEPT !.resilience = "high", !.environment_preference = "fast_paced"],
     [InitialTraits EXCEPT !.leadership = "high", !.technical_aptitude = "high"],
     [InitialTraits EXCEPT !.environment_preference = "flexible", !.problem_solving = "low"],
     [InitialTraits EXCEPT !.keywords = {"nurse", "python", "startup", "engineering"}]}

InitPlan ==
    /\ SessionInit
    /\ obs_log = <<>>
    /\ arg_user \in PlanProfiles
    /\ arg_job_traits = EmptyDict
    /\ arg_jobs = <<>>
    /\ arg_score = 0
    /\ ret = <<>>
    /\ called = "none"

CallPlan ==
    /\ called = "none"
    /\ ret' \in _generate_search_queries(arg_user)
    /\ called' = "_generate_search_queries"
    /\ UNCHANGED <<session_vars, accumulated_traits, obs_log, arg_user, arg_job_traits,
                   arg_jobs, arg_score>>

\* a second call on the same profile
CallPlanAgain ==
    /\ called = "_generate_search_queries"
    /\ ret' \in _generate_search_queries(arg_user)
    /\ UNCHANGED <<session_vars, accumulated_traits, obs_log, arg_user, arg_job_traits,
                   arg_jobs, arg_score, called>>

NextPlan == CallPlan \/ CallPlanAgain

SpecPlan == InitPlan /\ [][NextPlan]_vars

-----------------------------------------------------------------------------
(* Properties *)

\* the fields the accumulator merges by the non-neutral rule, with their neutral value
NeutralOf(field) ==
    IF field \in {"environment_preference", "work_style"} THEN "mixed" ELSE "medium"

MergedFields == Range(ComparableTraits) \cup {"environment_preference", "work_style"}

\* the most recent non-neutral value of a field in a log of observations, or the
\* neutral default when there is none
LastNonNeutral(log, field) ==
    LET hits == {i \in 1..Len(log) : log[i][field] # NeutralOf(field)}
    IN  IF hits = {} THEN NeutralOf(field)
        ELSE log[CHOOSE i \in hits : \A j \in hits : j <= i][field]

\* C1: after any sequence of merges, each of the 6 comparable dimensions and the 2
\* categorical fields holds the most recent non-neutral observation (its default if
\* there was none); so a non-neutral observation overwrites and a neutral one keeps
\* the value held before.
C1_LastNonNeutralWins ==
    \A field \in MergedFields :
        accumulated_traits[field] = LastNonNeutral(obs_log, field)

\* C1 witness: an all-non-neutral answer was merged and a neutral answer after it;
\* the established values are still there.
C1_Witness ==
    /\ Len(obs_log) = 2
    /\ obs_log[1] = AllHighObs
    /\ \A field \in MergedFields : obs_log[2][field] = NeutralOf(field)
    /\ accumulated_traits.leadership = "high"
    /\ accumulated_traits.environment_preference = "fast_paced"

\* the trait-level ordering low < medium < high, as a relation
AtLeast(user_level, required_level) ==
    <<user_level, required_level>> \in
        {<<"low", "low">>, <<"medium", "low">>, <<"medium", "medium">>,
         <<"high", "low">>, <<"high", "medium">>, <<"high", "high">>}

\* the requirement dimensions the user satisfies
Satisfied(user, job) ==
    {trait \in DOMAIN job : trait \in DOMAIN user /\ AtLeast(user[trait], job[trait])}

\* C2: for every user profile and every non-empty job requirement vector the score
\* is (dimensions satisfied) / (dimensions of the vector), and it lies in [0,1]
\* (ret is in sixtieths).
C2_ScoreIsSatisfiedFraction ==
    (called = "calculate_compatibility_score" /\ DOMAIN arg_job_traits # {}) =>
        /\ ret * Cardinality(DOMAIN arg_job_traits)
             = 60 * Cardinality(Satisfied(arg_user, arg_job_traits))
        /\ 0 <= ret /\ ret <= 60

\* C2 witness: a score strictly between 0 and 1, with a dimension the user exceeds
\* and a dimension the user misses.
C2_Witness ==
    /\ called = "calculate_compatibility_score"
    /\ 0 < ret /\ ret < 60
    /\ \E trait \in DOMAIN arg_job_traits \cap DOMAIN arg_user :
          arg_user[trait] = "high" /\ arg_job_traits[trait] = "low"
    /\ \E trait \in DOMAIN arg_job_traits \cap DOMAIN arg_user :
          arg_user[trait] = "low" /\ arg_job_traits[trait] = "medium"

\* C3: the score of a non-empty user profile against an empty requirement vector is
\* 0.5, and the score of an empty user profile against a non-empty vector is 0.0.
C3_ScorerTotality ==
    called = "calculate_compatibility_score" =>
        /\ (DOMAIN arg_user # {} /\ DOMAIN arg_job_traits = {}) => ret = 30
        /\ (DOMAIN arg_user = {} /\ DOMAIN arg_job_traits # {}) => ret = 0

\* the injective maps of 1..n into 1..n
InjectionsOn(n) ==
    {f \in [1..n -> 1..n] : \A i, j \in 1..n : f[i] = f[j] => i = j}

\* C4: batch_analyze_jobs returns the cards of the analysed jobs in non-increasing
\* order of score, and cards of equal score in their order in the input list.
C4_RankingStable ==
    called = "batch_analyze_jobs" =>
        LET cards == AnalysedCards(arg_jobs, arg_user)
            n == Len(cards)
        IN  /\ Len(ret) = n
            /\ \A i, j \in 1..n :
                  i < j => ret[i].compatibility_score >= ret[j].compatibility_score
            /\ \E from \in InjectionsOn(n) :
                  /\ \A i \in 1..n : ret[i] = cards[from[i]]
                  /\ \A i, j \in 1..n :
                        (i < j /\ ret[i].compatibility_score = ret[j].compatibility_score)
                            => from[i] < from[j]

\* C4 witness: a batch that is not in score order and holds two jobs of equal score.
C4_Witness ==
    /\ called = "batch_analyze_jobs"
    /\ arg_jobs = <<JobManager, JobPlain, JobProjectManager>>
    /\ arg_score = 0
    /\ Len(ret) = 3
    /\ ret[1].job_title = "Job0"
    /\ ret[2].job_title = "Manager"
    /\ ret[3].job_title = "Project Manager"
    /\ ret[2].compatibility_score = ret[3].compatibility_score
    /\ ret[1].compatibility_score > ret[2].compatibility_score

\* C5: the gate returns true exactly when at least 2 of resilience, leadership,
\* technical_aptitude are not medium, or the keyword set is non-empty.
C5_SearchGate ==
    called = "_should_trigger_search" =>
        (ret <=>
            \/ Cardinality({trait \in {"resilience", "leadership", "technical_aptitude"} :
                               arg_user[trait] # "medium"}) >= 2
            \/ arg_user.keywords # {})

\* C5 witness: the gate refused a profile with one non-neutral significant trait
\* (and a non-neutral trait that is not significant) and no keyword.
C5_Witness ==
    /\ called = "_should_trigger_search"
    /\ ret = FALSE
    /\ arg_user.leadership = "high"
    /\ arg_user.problem_solving = "high"
    /\ arg_user.keywords = {}

\* a step is one call of process_quiz_response
QuizStep == turns' = turns + 1 /\ event'.op = "quiz"

\* the search workflow of the step raised
SearchRaised == QuizStep /\ ~event'.escaped /\ "searching" \in Range(event'.phases)
                /\ "error" \in Range(event'.phases)

\* the search pass of the step obtained zero jobs
ZeroJobPass == QuizStep /\ ~event'.escaped /\ "searching" \in Range(event'.phases)
               /\ "error" \notin Range(event'.phases) /\ extracted_jobs' = <<>>

\* C6: whenever a search pass obtains zero jobs, the turn ends in Completed with
\* the match list empty and no message appended to the error list.
C6_ZeroJobsCompleted ==
    [][ZeroJobPass =>
          /\ workflow_state' = "completed"
          /\ match_cards' = <<>>
          /\ errors' = errors]_vars

\* s is a prefix of t
IsPrefix(s, t) == Len(s) <= Len(t) /\ SubSeq(t, 1, Len(s)) = s

\* what was accumulated in acc is in profile: each non-neutral value is there
\* unless obs overrode it with its own non-neutral value, and every keyword is there
Retained(acc, profile, obs) ==
    /\ \A field \in Range(ScalarFields) \cup {"environment_preference", "work_style"} :
          acc[field] # NeutralOf(field) =>
              /\ field \in DOMAIN profile
              /\ \/ profile[field] = acc[field]
                 \/ obs[field] # NeutralOf(field) /\ profile[field] = obs[field]
    /\ acc.keywords \subseteq Get(profile, "keywords", {})

C8_ErrorIsReported ==
    (event.op = "quiz" /\ workflow_state = "error") =>
        /\ result.status = "error"
        /\ "message" \in DOMAIN result

\* C9: a response after a turn that ended in Error is processed like any other: the
\* earlier messages stay in the error list, and unless the input itself is rejected
\* the observation is merged into the same accumulated profile, the gate is
\* evaluated on it, and the phase leaves Error unless this turn's search fails.
C9_NextTurnAfterError ==
    [][(workflow_state = "error" /\ QuizStep) =>
          /\ IsPrefix(errors, errors')
          /\ ~event'.escaped =>
                /\ accumulated_traits' =
                      IF event'.oracle \in OracleFailures THEN accumulated_traits
                      ELSE _merge_traits(accumulated_traits, result'.traits)
                /\ user_profile' = accumulated_traits'
                /\ result'.should_search = _should_trigger_search(user_profile')
                /\ event'.phases[1] = "profiling"
                /\ SearchRaised \/ workflow_state' \in {"profiling", "completed"}]_vars

\* C9 witness: the first turn failed, the second one searched, found jobs and
\* ranked them; the first turn's message is still recorded.
C9_Witness ==
    /\ turns = 2
    /\ event.op = "quiz"
    /\ errors = <<"Quiz processing error">>
    /\ workflow_state = "completed"
    /\ match_cards # <<>>
    /\ accumulated_traits.keywords = {"nurse"}

\* C10: when the gate returns false after a response is merged, the turn ends in
\* Profiling: no query is issued, no message is appended, and the job list and the
\* match list are unchanged.
C10_GateFalseStaysProfiling ==
    [][(QuizStep /\ ~event'.escaped /\ ~result'.should_search) =>
          /\ workflow_state' = "profiling"
          /\ search_history' = search_history
          /\ errors' = errors
          /\ extracted_jobs' = extracted_jobs
          /\ match_cards' = match_cards
          /\ analysis_history' = analysis_history]_vars

\* C10 witness: after two turns one significant trait is non-neutral and there is no
\* keyword; the gate has refused, the session is in Profiling, nothing was searched.
C10_Witness ==
    /\ turns = 2
    /\ event.op = "quiz"
    /\ ~event.escaped
    /\ ~event.should_search
    /\ workflow_state = "profiling"
    /\ accumulated_traits.leadership = "low"
    /\ accumulated_traits.work_style = "collaborative"
    /\ search_history = 0
    /\ extracted_jobs = <<>>

\* a step is one call of reset_session
ResetStep == event'.op = "reset" /\ turns' = 0 /\ event' # event

\* C11: reset_session, from any state, leaves the session in Idle with the state of
\* a new session: job list, match list, error list and turn log empty, the
\* accumulated traits all neutral with no keyword, the scout's and the analyst's
\* histories empty; and the turn that follows a reset merges its observation into
\* the all-neutral profile and shows no job, match or message of the turns before.
C11_ResetIsFresh ==
    [][/\ ResetStep =>
             /\ workflow_state' = "idle"
             /\ extracted_jobs' = <<>> /\ match_cards' = <<>> /\ errors' = <<>>
             /\ conversation_history' = <<>> /\ profiler_history' = <<>>
             /\ accumulated_traits' = InitialTraits
             /\ user_profile' = EmptyDict
             /\ search_history' = 0 /\ analysis_history' = 0
       /\ (event.op = "reset" /\ QuizStep) =>
             /\ accumulated_traits' =
                   IF event'.escaped \/ event'.oracle \in OracleFailures THEN InitialTraits
                   ELSE _merge_traits(InitialTraits, result'.traits)
             /\ Len(errors') <= 1
             /\ (extracted_jobs' = <<>> => match_cards' = <<>>)
             /\ (~event'.escaped => conversation_history' = profiler_history')
             /\ Len(profiler_history') <= 2]_vars

\* C11 witness: a session that had searched and ranked jobs on keywords was reset.
C11_Witness ==
    /\ event.op = "reset"
    /\ result.status = "success"
    /\ result.workflow_state = "completed"
    /\ result.traits.extracted_keywords # <<>>
    /\ workflow_state = "idle"
    /\ accumulated_traits = InitialTraits
    /\ match_cards = <<>>

\* C12: in every state the profile held in the session state has all six comparable
\* trait keys, none of them null.
C12_ProfileHasSixKeys ==
    \A trait \in Range(ComparableTraits) :
        trait \in DOMAIN user_profile /\ user_profile[trait] # "None"

\* the phases a call of process_quiz_response goes through, from the phase it found
PhasePath == <<workflow_state>> \o event'.phases

\* C13: the phase moves only along the edges of the workflow: a response moves it to
\* Profiling; Searching is entered from Profiling with the gate true; Analyzing from
\* Searching with a non-empty job list; Completed from Searching with no job or from
\* Analyzing; Error from Profiling or Searching; Idle by reset only.  A turn ends in
\* Profiling, Completed or Error.
C13_PhaseEdges ==
    [][/\ QuizStep =>
             LET path == PhasePath
                 n == Len(path)
             IN  /\ n >= 2
                 /\ path[2] = "profiling"
                 /\ workflow_state' = path[n]
                 /\ workflow_state' \in {"profiling", "completed", "error"}
                 /\ \A i \in 2..(n - 1) :
                       LET from == path[i]
                           to == path[i + 1]
                       IN  /\ to \notin {"idle", "profiling"}
                           /\ to = "searching" =>
                                 from = "profiling" /\ event'.should_search
                           /\ to = "analyzing" =>
                                 from = "searching" /\ extracted_jobs' # <<>>
                           /\ to = "completed" =>
                                 \/ from = "searching" /\ extracted_jobs' = <<>>
                                 \/ from = "analyzing"
                           /\ to = "error" => from \in {"profiling", "searching"}
       /\ (workflow_state' = "idle" /\ event' # event) => event'.op = "reset"]_vars

\* C13 witness: a turn that followed a failed turn went Profiling, Searching,
\* Analyzing, Completed.
C13_Witness ==
    /\ event.op = "quiz"
    /\ turns = 2
    /\ errors # <<>>
    /\ event.phases = <<"profiling", "searching", "analyzing", "completed">>
    /\ workflow_state = "completed"

\* C14: a merge leaves as accumulated keywords exactly the union of the keywords
\* accumulated before and the observation's keywords, each keyword once (the
\* accumulated keywords are the elements of set(old + new)); no merge removes a
\* keyword.
C14_KeywordsUnion ==
    [][obs_log' # obs_log =>
          LET obs == obs_log'[Len(obs_log')]
          IN  /\ accumulated_traits'.keywords
                    = accumulated_traits.keywords \cup Range(obs.extracted_keywords)
              /\ accumulated_traits.keywords \subseteq accumulated_traits'.keywords
              /\ \A i \in 1..Len(obs_log) :
                    Range(obs_log[i].extracted_keywords) \subseteq accumulated_traits'.keywords
              /\ Cardinality(accumulated_traits'.keywords)
                    <= Cardinality(accumulated_traits.keywords) + Len(obs.extracted_keywords)]_vars

\* C14 witness: an observation that repeats a keyword, then one that brings a new
\* keyword and the old one again; two keywords are accumulated.
C14_Witness ==
    /\ Len(obs_log) = 2
    /\ obs_log[1].extracted_keywords = <<"nurse", "nurse">>
    /\ obs_log[2].extracted_keywords = <<"python", "nurse">>
    /\ accumulated_traits.keywords = {"nurse", "python"}

\* C15 as stated: when the oracle's answer cannot be parsed the observation merged
\* is the lexical fallback's output for the user's text, the turn returns status
\* success, and the session does not enter Error.
C15_ParseFailureNeverError ==
    [][(QuizStep /\ event'.oracle = "unparseable") =>
          /\ result'.status = "success"
          /\ result'.traits = FallbackOf(event'.input)
          /\ accumulated_traits' = _merge_traits(accumulated_traits, FallbackOf(event'.input))
          /\ workflow_state' # "error"]_vars

\* C15 amended: when the oracle's answer is not JSON the turn does not fail because
\* of it: the observation merged is the lexical fallback's output for the user's
\* text and the turn returns status success; the session enters Error only if the
\* search workflow that the merged profile triggers in the same turn fails.  An
\* answer that is JSON but not a TraitObject is not handed to the fallback: the
\* default observation is returned and nothing is merged.
C15_FallbackOnParseFailure ==
    [][/\ (QuizStep /\ event'.oracle = "unparseable") =>
             /\ ~event'.escaped
             /\ result'.status = "success"
             /\ result'.traits = FallbackOf(event'.input)
             /\ accumulated_traits'
                   = _merge_traits(accumulated_traits, FallbackOf(event'.input))
             /\ user_profile' = accumulated_traits'
             /\ (workflow_state' = "error" => SearchRaised)
             /\ (~SearchRaised => errors' = errors)
       /\ (QuizStep /\ event'.oracle = "invalid") =>
             /\ ~event'.escaped
             /\ result'.status = "success"
             /\ result'.traits = DefaultTraitObject
             /\ accumulated_traits' = accumulated_traits]_vars

\* C15 witness: the answer to "I solve complex technical problems" was not JSON; the
\* fallback's high technical aptitude and problem solving are in the profile, and
\* the session is in Profiling.
C15_Witness ==
    /\ event.op = "quiz"
    /\ event.oracle = "unparseable"
    /\ event.input = "I solve complex technical problems"
    /\ result.status = "success"
    /\ result.traits.reasoning = "Fallback extraction due to parsing error"
    /\ accumulated_traits.technical_aptitude = "high"
    /\ accumulated_traits.problem_solving = "high"
    /\ workflow_state = "profiling"

\* C16: a job whose analysis raises contributes no card and every other job of the
\* batch is analysed and ranked: batch_analyze_jobs returns exactly one card per job
\* whose analysis succeeds, in non-increasing order of score.
C16_FailedJobSkipped ==
    called = "batch_analyze_jobs" =>
        LET ok == {i \in 1..Len(arg_jobs) : ~AnalysisRaises(arg_jobs[i])}
            card(i) == analyze_job_fit(arg_jobs[i], arg_user)
        IN  /\ Len(ret) = Cardinality(ok)
            /\ \A i \in ok :
                  Cardinality({k \in 1..Len(ret) : ret[k] = card(i)})
                      = Cardinality({j \in ok : card(j) = card(i)})
            /\ \A k \in 1..Len(ret) : \E i \in ok : ret[k] = card(i)
            /\ \A k \in 1..(Len(ret) - 1) :
                  ret[k].compatibility_score >= ret[k + 1].compatibility_score

\* C16 witness: the second job of three has a null description; the two others are
\* ranked.
C16_Witness ==
    /\ called = "batch_analyze_jobs"
    /\ arg_jobs = <<JobManager, JobNullDescription, JobBackend>>
    /\ arg_score = 0
    /\ Len(ret) = 2
    /\ {ret[1].job_title, ret[2].job_title} = {"Manager", "Backend Engineer"}

\* the (title, company, location) triple of a job record
Triple(job) == <<Get(job, "title", "None"), Get(job, "company", "None"),
                 Get(job, "location", "None")>>

\* C17: find_matching_jobs returns no two jobs with the same (title, company,
\* location): of the jobs accumulated over the queries it returns the first
\* occurrence of each triple, in the order of accumulation.
C17_FirstOccurrenceKept ==
    called = "find_matching_jobs" =>
        LET all == IF ret.searches = 0 THEN <<>> ELSE arg_jobs
            firsts == {i \in 1..Len(all) :
                          \A j \in 1..(i - 1) : Triple(all[j]) # Triple(all[i])}
            nth(k) == CHOOSE i \in firsts : Cardinality({j \in firsts : j <= i}) = k
        IN  /\ ~ret.raises
            /\ \A i, j \in 1..Len(ret.jobs) :
                  i # j => Triple(ret.jobs[i]) # Triple(ret.jobs[j])
            /\ Len(ret.jobs) = Cardinality(firsts)
            /\ \A k \in 1..Len(ret.jobs) : ret.jobs[k] = all[nth(k)]

\* C17 witness: the Backend Engineer posting came twice with different applicant
\* counts and the Acme posting for two locations; the first Backend record and both
\* Acme records are returned.
C17_Witness ==
    /\ called = "find_matching_jobs"
    /\ arg_jobs = <<JobBackend, JobAcmeManager, JobBackendLater>>
    /\ arg_score = 0
    /\ ret.jobs = <<JobBackend, JobAcmeManager>>

\* the fixed keyword set of each dimension of the job requirement vector
DimensionKeywords(dimension) ==
    CASE dimension = "resilience" ->
            {"pressure", "fast-paced", "emergency", "urgent", "crisis", "resilient"}
      [] dimension = "leadership" ->
            {"lead", "manage", "team", "director", "manager", "head"}
      [] dimension = "technical_aptitude" ->
            {"develop", "code", "technical", "engineer", "architect", "software"}
      [] dimension = "problem_solving" ->
            {"analyze", "solve", "problem", "critical", "strategic", "optimize"}
      [] dimension = "teamwork" ->
            {"collaborate", "team", "group", "together", "communication"}
      [] dimension = "communication" ->
            {"communicate", "present", "speak", "client", "stakeholder"}

\* C18: the vector _extract_job_traits returns has exactly the six comparable
\* dimensions; a dimension is high iff a keyword of its set is a substring of the
\* lower-cased title and description, medium otherwise, never low; so each dimension
\* depends on its own keyword set only.
C18_JobTraitsByKeywords ==
    called = "_extract_job_traits" =>
        LET job == arg_jobs[1]
            text == lower(job.title) \o " " \o lower(job.description)
        IN  /\ DOMAIN ret = Range(ComparableTraits)
            /\ \A dimension \in Range(ComparableTraits) :
                  /\ ret[dimension] \in {"medium", "high"}
                  /\ ret[dimension] = "high" <=>
                        \E word \in DimensionKeywords(dimension) : Contains(text, word)

\* C18 witness: a title that names leadership and communication keywords and a
\* description that names none: those two dimensions are high, the others medium.
C18_Witness ==
    /\ called = "_extract_job_traits"
    /\ arg_jobs[1].title = "Project Manager - Client Services"
    /\ arg_jobs[1].description = "A job"
    /\ ret = [resilience |-> "medium", leadership |-> "high",
              technical_aptitude |-> "medium", problem_solving |-> "medium",
              teamwork |-> "medium", communication |-> "high"]

\* the display name of a dimension in a label
TraitTitle(dimension) ==
    CASE dimension = "resilience" -> "Resilience"
      [] dimension = "leadership" -> "Leadership"
      [] dimension = "technical_aptitude" -> "Technical Aptitude"
      [] dimension = "problem_solving" -> "Problem Solving"
      [] dimension = "teamwork" -> "Teamwork"
      [] dimension = "communication" -> "Communication"

\* the label of a dimension under the rule: Strong when the user is at or above the
\* job's level, Good when one level below, Developing when two below
RuleLabel(user, job, dimension) ==
    LET user_level == Get(user, dimension, "medium")
        job_level == job[dimension]
    IN  IF AtLeast(user_level, job_level) THEN "Strong"
        ELSE IF <<user_level, job_level>> \in {<<"low", "medium">>, <<"medium", "high">>}
        THEN "Good"
        ELSE "Developing"

\* the labels of the dimensions of a job vector that are matched (or unmatched), in
\* the order of the dimensions
RECURSIVE RuleLabels(_, _, _, _)
RuleLabels(user, job, n, matched) ==
    IF n = 0 THEN <<>>
    ELSE LET dimension == ComparableTraits[n]
             rest == RuleLabels(user, job, n - 1, matched)
         IN  IF dimension \in DOMAIN job
                /\ (RuleLabel(user, job, dimension) # "Developing") = matched
             THEN Append(rest, RuleLabel(user, job, dimension) \o " " \o TraitTitle(dimension))
             ELSE rest

C20_CardSizeBounds ==
    called = "analyze_job_fit" =>
        LET job_traits == JobTraitsOf(arg_jobs[1])
            all_matched == RuleLabels(arg_user, job_traits, Len(ComparableTraits), TRUE)
            all_unmatched == RuleLabels(arg_user, job_traits, Len(ComparableTraits), FALSE)
            matched == ret.matched_traits
            unmatched == ret.unmatched_traits
        IN  /\ Len(matched) <= 5 /\ Len(unmatched) <= 3
            /\ Len(matched) = Min(5, Len(all_matched))
            /\ Len(unmatched) = Min(3, Len(all_unmatched))
            /\ \A i \in 1..Len(matched) : matched[i] = all_matched[i]
            /\ \A i \in 1..Len(unmatched) : unmatched[i] = all_unmatched[i]
            /\ IF matched = <<>>
               THEN Len(ret.key_strengths) = 1 /\ ret.key_strengths[1] \notin Range(all_matched)
               ELSE /\ Len(ret.key_strengths) = Min(3, Len(matched))
                    /\ \A i \in 1..Len(ret.key_strengths) : ret.key_strengths[i] = matched[i]
            /\ IF unmatched = <<>>
               THEN /\ Len(ret.growth_areas) = 1
                    /\ ret.growth_areas[1] = "Continue skill development in technical areas"
               ELSE /\ Len(ret.growth_areas) = Min(2, Len(unmatched))
                    /\ \A i \in 1..Len(ret.growth_areas) :
                          ret.growth_areas[i] = "Develop " \o unmatched[i]
            /\ ret.key_strengths # <<>> /\ ret.growth_areas # <<>>

\* C20 witness: a posting that requires a high level on all six dimensions, a user
\* low on all six: nothing matched, six labels unmatched of which three are kept.
C20_Witness ==
    /\ called = "analyze_job_fit"
    /\ ret.matched_traits = <<>>
    /\ ret.unmatched_traits = <<"Developing Resilience", "Developing Leadership",
                                "Developing Technical Aptitude">>
    /\ ret.key_strengths = <<"Potential for role growth">>
    /\ ret.growth_areas = <<"Develop Developing Resilience", "Develop Developing Leadership">>

\* C21: the band is decided by the score with closed lower bounds: >= 0.8 Strong
\* Match, >= 0.6 Good Fit, >= 0.4 Consider, below 0.4 Not Aligned (arg_score is in
\* sixtieths, so score >= 0.8 is 10 * arg_score >= 8 * 60); for the scores k/6 the
\* band is Strong Match for k in {5,6}, Good Fit for 4, Consider for 3, Not Aligned
\* for k <= 2.
C21_RecommendationBands ==
    called = "_generate_recommendation" =>
        /\ ret = (IF 10 * arg_score >= 8 * 60 THEN "Strong Match"
                  ELSE IF 10 * arg_score >= 6 * 60 THEN "Good Fit"
                  ELSE IF 10 * arg_score >= 4 * 60 THEN "Consider"
                  ELSE "Not Aligned")
        /\ \A k \in 0..6 :
              arg_score * 6 = 60 * k =>
                  ret = (CASE k \in {5, 6} -> "Strong Match"
                           [] k = 4 -> "Good Fit"
                           [] k = 3 -> "Consider"
                           [] OTHER -> "Not Aligned")

\* C21 witness: the score exactly 0.6 is a Good Fit.
C21_Witness ==
    /\ called = "_generate_recommendation"
    /\ arg_score * 10 = 6 * 60
    /\ ret = "Good Fit"

\* C22: the market availability is decided by the applicant count, 100 when the
\* record has none: below 30 High Availability, 30..99 Moderate Availability,
\* 100..299 Competitive Market, 300 and more Highly Competitive.
C22_MarketAvailability ==
    called = "_assess_market_availability" =>
        LET job == arg_jobs[1]
            count == IF "applicants" \in DOMAIN job THEN job.applicants ELSE 100
        IN  /\ count \in 0..29 => ret = "High Availability (Few Applicants)"
            /\ count \in 30..99 => ret = "Moderate Availability"
            /\ count \in 100..299 => ret = "Competitive Market"
            /\ count >= 300 => ret = "Highly Competitive (Many Applicants)"
            /\ "applicants" \notin DOMAIN job => ret = "Competitive Market"

\* C22 witness: a record with no applicant count is a Competitive Market.
C22_Witness ==
    /\ called = "_assess_market_availability"
    /\ "applicants" \notin DOMAIN arg_jobs[1]
    /\ ret = "Competitive Market"

\* C23: every plan _generate_search_queries returns has no query twice, at most 5
\* queries and at least one; when no title and no keyword was produced it is
\* exactly <<"Software Engineer", "Project Manager">>.
C23_PlanBounds ==
    called = "_generate_search_queries" =>
        /\ \A i, j \in 1..Len(ret.queries) : i # j => ret.queries[i] # ret.queries[j]
        /\ Len(ret.queries) <= 5
        /\ ret.queries # <<>>
        /\ ret.candidates = <<>> => ret.queries = <<"Software Engineer", "Project Manager">>
        /\ ret.candidates # <<>> => Range(ret.queries) \subseteq Range(ret.candidates)
        /\ Cardinality(Range(ret.candidates)) <= 5 =>
              Range(ret.candidates) \subseteq Range(ret.queries)

\* C23 witness: six distinct titles were produced and five of them are the plan.
C23_Witness ==
    /\ called = "_generate_search_queries"
    /\ Cardinality(Range(ret.candidates)) = 6
    /\ Len(ret.queries) = 5
    /\ "Architect" \notin Range(ret.queries)

\* C24: the candidate list, before duplicates are removed and the list is cut,
\* holds the titles of every comparable trait whose level is high (each of the six
\* has titles in the table), followed by up to 3 keywords, followed by the 3
\* environment titles exactly when environment_preference is fast_paced or flexible.
C24_CandidateList ==
    called = "_generate_search_queries" =>
        LET keywords == arg_user.keywords
            environment == arg_user.environment_preference \in {"fast_paced", "flexible"}
            n == Len(ret.candidates)
            tail == Min(3, Cardinality(keywords)) + (IF environment THEN 3 ELSE 0)
            titles == SubSeq(ret.candidates, 1, n - tail)
            keyword_list == SubSeq(ret.candidates, n - tail + 1,
                                   n - tail + Min(3, Cardinality(keywords)))
        IN  /\ tail <= n
            /\ Range(keyword_list) \subseteq keywords
            /\ Cardinality(Range(keyword_list)) = Min(3, Cardinality(keywords))
            /\ \A i \in 1..Len(ComparableTraits) :
                  arg_user[ComparableTraits[i]] = "high" =>
                      /\ TraitToJobs(ComparableTraits[i]) # <<>>
                      /\ Range(TraitToJobs(ComparableTraits[i])) \subseteq Range(titles)
            /\ ~environment => \A i \in 1..n :
                  ret.candidates[i] \notin {"Startup", "Consultant", "Remote Worker", "Contractor"}

\* C30: two calls of _generate_search_queries on the same profile return the same
\* queries in the same order.
C30_PlanIsFunctionOfProfile ==
    [][(called = "_generate_search_queries" /\ called' = "_generate_search_queries"
        /\ arg_user' = arg_user) => ret'.queries = ret.queries]_vars

\* C25: the reasoning text of every MatchResult is the score/band header followed
\* by at most 2 templated observations, and the generic sentence is present if and
\* only if no templated observation fired.
C25_ReasoningShape ==
    called = "analyze_job_fit" =>
        LET job == arg_jobs[1]
            header == "% Match - " \o ret.recommendation
            fired == {observation \in {ProblemSolvingObservation, ResilienceObservation,
                                       LeadershipObservation} :
                         Contains(ret.reasoning, observation)}
            generic == GenericReasoning(Get(job, "company", "this company"),
                                        Get(job, "title", "this role"))
        IN  /\ Contains(ret.reasoning, header)
            /\ Cardinality(fired) <= 2
            /\ Contains(ret.reasoning, generic) <=> fired = {}

\* the text before the first "%" of a reasoning text
HeaderPercentage(reasoning) ==
    LET first == CHOOSE i \in 1..Len(reasoning) :
                    /\ SubSeq(reasoning, i, i) = "%"
                    /\ \A j \in 1..(i - 1) : SubSeq(reasoning, j, j) # "%"
    IN  SubSeq(reasoning, 1, first - 1)

\* C29: the integer percentage in the header of a MatchResult's reasoning text is
\* the same number as its match_percentage field.
C29_HeaderIsMatchPercentage ==
    called = "analyze_job_fit" =>
        HeaderPercentage(ret.reasoning) = ToString(ret.match_percentage)

\* the number of entries of a list of labels that begin with a label
CountLabels(labels, label) ==
    Cardinality({i \in 1..Len(labels) : SubSeq(labels[i], 1, Len(label)) = label})

\* the number of dimensions the scorer counted as satisfied, from the score
SatisfiedCount(card) == (card.compatibility_score * Len(ComparableTraits)) \div 60

\* C28 as stated: the number of "Strong" labels in the matched-trait list equals the
\* number of dimensions the scorer counted as satisfied; a result with score 1.0
\* lists a "Strong" label for every dimension.
C28_StrongCountIsSatisfiedCount ==
    called = "analyze_job_fit" =>
        /\ CountLabels(ret.matched_traits, "Strong") = SatisfiedCount(ret)
        /\ ret.compatibility_score = 60 =>
              CountLabels(ret.matched_traits, "Strong") = Len(ComparableTraits)

\* C28 amended: the matched-trait list holds the first 5 matched labels, so its
\* number of "Strong" labels never exceeds the number of satisfied dimensions,
\* equals it whenever the list is not full or no label was cut, and is 5 for a
\* result with score 1.0.
C28_StrongCountUpToFive ==
    called = "analyze_job_fit" =>
        LET strong == CountLabels(ret.matched_traits, "Strong")
            matched == Len(ret.matched_traits)
            unmatched == Len(ret.unmatched_traits)
        IN  /\ strong <= SatisfiedCount(ret)
            /\ strong >= SatisfiedCount(ret) - 1
            /\ (matched < 5 \/ matched + unmatched = Len(ComparableTraits)) =>
                  strong = SatisfiedCount(ret)
            /\ ret.compatibility_score = 60 => strong = 5

\* a result with score 1.0: six satisfied dimensions, five labels listed
C28_Witness ==
    /\ called = "analyze_job_fit"
    /\ ret.compatibility_score = 60
    /\ Len(ret.matched_traits) = 5
    /\ CountLabels(ret.matched_traits, "Strong") = 5

\* C26: within one session the search gate is monotone over turns: once it holds
\* for the accumulated profile it holds after every later merge, whatever the
\* observation, and every later turn that profiles a response runs the search
\* workflow again.
C26_GateMonotone ==
    [][(QuizStep /\ _should_trigger_search(accumulated_traits)) =>
          /\ _should_trigger_search(accumulated_traits')
          /\ ~event'.escaped =>
                /\ event'.should_search
                /\ result'.should_search
                /\ Len(event'.phases) >= 2
                /\ event'.phases[2] = "searching"]_vars

\* a first turn that brought a keyword and searched, then a turn whose observation
\* is neutral on everything and that searched again
C26_Witness ==
    /\ turns = 2
    /\ event.op = "quiz"
    /\ ~event.escaped
    /\ event.oracle = "json"
    /\ result.traits = [DefaultTraitObject EXCEPT !.reasoning = "r"]
    /\ accumulated_traits.keywords = {"nurse"}
    /\ event.should_search
    /\ event.phases[2] = "searching"
    /\ search_history >= 2

\* C27: whenever the search gate holds for the accumulated profile, the search pass
\* that follows issues at least one query to the job source: the scout's
\* sufficiency check accepts every profile the gate accepted.
C27_GateImpliesQuery ==
    [][(QuizStep /\ ~event'.escaped /\ event'.should_search) =>
          /\ _has_sufficient_profile_data(user_profile')
          /\ search_history' > search_history]_vars

====
